---- MODULE Spec2Model ----
(***************************************************************************)
(* A model of dmb.model.Model (src/dmb/model.py): the capture callback,    *)
(* the one-slot asyncio queue between the audio thread and the event loop, *)
(* the voice loop with its silence counter, speaking signals and packet    *)
(* fan-out, the join / leave / stop handlers, start_recording with the     *)
(* handles of the capture stream, and set_bitrate.                         *)
(*                                                                         *)
(* Everything but RecordingCallback runs on the asyncio event loop, so a   *)
(* handler is atomic between two of its awaits.  The voice loop has no     *)
(* await inside one frame; it is still split in two steps so that the      *)
(* audio thread can be seen to run while a frame is being processed.       *)
(***************************************************************************)
EXTENDS Naturals, Integers, Sequences, FiniteSets, TLC

VARIABLES
    running,              \* Model.running
    audio_queue,          \* Model.audio_queue, an asyncio.Queue(1): its items
    callbacks,            \* call_soon_threadsafe handles not yet run
    muted,                \* Model.muted
    joined,               \* Model.joined, a list of channels
    voice_clients,        \* discord_client.voice_clients, by channel
    connecting,           \* join_voice calls suspended in channel.connect()
    leaving,              \* leave_voice calls suspended in asyncio.wait
    loop_pc,              \* where run() / _encode_voice_loop stands
    buffer,               \* _encode_voice_loop's local: the frame in hand
    consecutive_silence,  \* _encode_voice_loop's local counter
    stop_pc,              \* where stop() stands
    input_stream,         \* Model.input_stream: the handle, or NoStream
    open_streams,         \* the stream handles opened and not closed yet
    bitrate,              \* the bitrate set in the opus encoder, bits/s
    hist,                 \* what the loop did with each frame, where a
                          \* trace is kept
    event                 \* what the step just taken did, and its outcome

vars == <<running, audio_queue, callbacks, muted, joined, voice_clients,
          connecting, leaving, loop_pc, buffer, consecutive_silence,
          stop_pc, input_stream, open_streams, bitrate, hist, event>>

\* the capture stream and the encoder setting
device_vars == <<input_stream, open_streams, bitrate>>

(***************************************************************************)
(* Bounds of the model.                                                    *)
(***************************************************************************)
\* frames per block (the program uses 48000 * 20 // 1000)
BlockSize == 1
\* callbacks scheduled by the audio thread and not yet run
MaxPending == 1
\* Spec: the device stops delivering once this many silent frames are counted
MaxSilence == 4
\* SpecGate: frames the loop processes
GateFrames == 5
\* SpecScenario: frames the loop processes
ScenarioFrames == 9
\* stream handles the sound library can have open at once
MaxStreams == 2

Channels == {"A", "B"}

(***************************************************************************)
(* The stream format: channels=2, dtype='float32'.                         *)
(***************************************************************************)
StreamChannels == 2
SampleBytes == 4
FrameBytes == StreamChannels * SampleBytes

\* None, the value stop() puts in the queue: the empty sequence, which no
\* block is (a block has BufferLen bytes)
None == <<>>

\* discord.SpeakingState
SpeakingNone == "none"
SpeakingVoice == "voice"

(***************************************************************************)
(* Frames are byte strings, samples little-endian IEEE-754 binary32.       *)
(***************************************************************************)
\* bytes(n)
ZeroBytes(n) == [i \in 1..n |-> 0]

PosZero == <<0, 0, 0, 0>>
NegZero == <<0, 0, 0, 128>>
One == <<0, 0, 128, 63>>

BufferLen == BlockSize * FrameBytes

\* the blocks the device delivers in the model: all samples +0.0 but the last
FrameEnding(sample) == ZeroBytes(BufferLen - SampleBytes) \o sample
SilentFrame == FrameEnding(PosZero)
NegZeroFrame == FrameEnding(NegZero)
LoudFrame == FrameEnding(One)
CapturedFrames == {SilentFrame, NegZeroFrame, LoudFrame}

\* buffer.count(0)
CountZero(b) == Cardinality({i \in 1..Len(b) : b[i] = 0})

\* buffer.count(0) == len(buffer)
AllZeroBytes(b) == CountZero(b) = Len(b)

\* the i-th float32 of a buffer, and whether its value is zero (+0.0 or -0.0)
SampleAt(b, i) == SubSeq(b, SampleBytes * (i - 1) + 1, SampleBytes * i)
IsZeroSample(s) == s[1] = 0 /\ s[2] = 0 /\ s[3] = 0 /\ s[4] \in {0, 128}
AllZeroSamples(b) ==
    \A i \in 1..(Len(b) \div SampleBytes) : IsZeroSample(SampleAt(b, i))

\* opus_encode_float: opaque, the packet names the pcm it was made from
OpusEncode(b) == [pcm |-> b, frames |-> Len(b) \div FrameBytes]

NoClient == [status |-> "absent", dmb_speaking |-> SpeakingNone,
             last_signal |-> "nothing"]
NewClient == [status |-> "connecting", dmb_speaking |-> SpeakingNone,
              last_signal |-> "nothing"]

\* voice_client.is_connected()
IsConnected(c) == voice_clients[c].status = "connected"
\* the clients in discord_client.voice_clients
Present(c) == voice_clients[c].status # "absent"
Connected == {c \in Channels : IsConnected(c)}

\* channel in self.joined
InJoined(c) == \E i \in 1..Len(joined) : joined[i] = c

\* list.remove: the first occurrence
RECURSIVE Remove(_, _)
Remove(s, c) ==
    IF s = <<>> THEN <<>>
    ELSE IF Head(s) = c THEN Tail(s)
    ELSE <<Head(s)>> \o Remove(Tail(s), c)

\* self.input_stream is None
NoStream == 0
\* the handles of the sound library
Handles == 1..MaxStreams
\* CTL_SET_BITRATE, 128000
InitialBitrate == 128000

\* the event loop is between two callbacks
MainThreadFree == loop_pc # "encode"

\* the outcome of a handler step
Ev(op, ch, outcome) ==
    [op |-> op, ch |-> ch, outcome |-> outcome, speaking |-> SpeakingNone,
     signalled |-> {}, encoded |-> <<>>, sent |-> {}, offers |-> <<>>,
     failed |-> {}, taken |-> <<>>, closed |-> <<>>, kbps |-> 0]
\* a step whose outcome no handler reports
Quiet == Ev("-", "-", "-")

Init ==
    /\ running = TRUE
    /\ audio_queue = <<>>
    /\ callbacks = <<>>
    /\ muted = FALSE
    /\ joined = <<>>
    /\ voice_clients = [c \in Channels |-> NoClient]
    /\ connecting = [c \in Channels |-> FALSE]
    /\ leaving = [c \in Channels |-> FALSE]
    /\ loop_pc = "login"
    /\ buffer = None
    /\ consecutive_silence = 0
    /\ stop_pc = "idle"
    /\ input_stream = NoStream
    /\ open_streams = {}
    /\ bitrate = InitialBitrate
    /\ hist = <<>>
    /\ event = Quiet

(***************************************************************************)
(* The handoff: audio thread -> call_soon_threadsafe -> asyncio.Queue(1).  *)
(***************************************************************************)
\* asyncio.Queue(1)
QueueMaxSize == 1

\* Queue.full()
Full(q) == Len(q) >= QueueMaxSize

\* Queue.put_nowait: the queue afterwards, and whether QueueFull was raised
PutNowaitUnchecked(q, item) == [queue |-> Append(q, item), raised |-> FALSE]
PutNowait(q, item) ==
    IF Full(q) THEN [queue |-> q, raised |-> TRUE]
    ELSE [queue |-> Append(q, item), raised |-> FALSE]

\* frames captured and neither dropped nor taken by the loop yet
InFlight ==
    Len(callbacks) + Cardinality({i \in 1..Len(audio_queue) : audio_queue[i] # None})

\* _recording_callback, on the audio thread: it only schedules the callback
RecordingCallback(indata) ==
    /\ Len(callbacks) < MaxPending
    /\ callbacks' = Append(callbacks, indata)
    /\ event' = Quiet
    /\ UNCHANGED device_vars
    /\ UNCHANGED <<running, audio_queue, muted, joined, voice_clients,
                   connecting, leaving, loop_pc, buffer, consecutive_silence,
                   stop_pc, hist>>

\* what the callback does with the result of put_nowait
OnPutRaises(put) == IF put.raised THEN "QueueFull" ELSE "queued"
OnPut(put) == IF put.raised THEN "dropped" ELSE "queued"

\* _recording_callback_main_thread, run by the event loop
RecordingCallbackMainThread ==
    /\ MainThreadFree
    /\ callbacks # <<>>
    /\ LET put == PutNowait(audio_queue, Head(callbacks)) IN
        /\ audio_queue' = put.queue
        /\ event' = Ev("callback", "-", OnPut(put))
    /\ callbacks' = Tail(callbacks)
    /\ UNCHANGED device_vars
    /\ UNCHANGED <<running, muted, joined, voice_clients, connecting, leaving,
                   loop_pc, buffer, consecutive_silence, stop_pc, hist>>

(***************************************************************************)
(* run() and _encode_voice_loop.                                           *)
(***************************************************************************)
\* while self.running: where the loop goes at the top of an iteration
LoopTopForever(r) == "get"
LoopTop(r) == IF r THEN "get" ELSE "done"

\* run(): login, connect, wait_until_ready, fetch_guilds, then the loop
Run ==
    /\ loop_pc = "login"
    /\ loop_pc' = LoopTop(running)
    /\ consecutive_silence' = 0
    /\ event' = Quiet
    /\ UNCHANGED device_vars
    /\ UNCHANGED <<running, audio_queue, callbacks, muted, joined,
                   voice_clients, connecting, leaving, buffer, stop_pc, hist>>

\* lines 199-205: the buffer and the counter after classification
GateMuteKeepsBuffer(m, b, n) ==
    IF m THEN [buffer |-> b, silence |-> n + 1]
    ELSE IF AllZeroBytes(b) THEN [buffer |-> b, silence |-> n + 1]
    ELSE [buffer |-> b, silence |-> 0]
GateNoReset(m, b, n) ==
    IF m THEN [buffer |-> ZeroBytes(Len(b)), silence |-> n + 1]
    ELSE IF AllZeroBytes(b) THEN [buffer |-> b, silence |-> n + 1]
    ELSE [buffer |-> b, silence |-> n]
Gate(m, b, n) ==
    IF m THEN [buffer |-> ZeroBytes(Len(b)), silence |-> n + 1]
    ELSE IF AllZeroBytes(b) THEN [buffer |-> b, silence |-> n + 1]
    ELSE [buffer |-> b, silence |-> 0]

\* line 207
SpeakingStateLate(n) == IF n <= 2 THEN SpeakingVoice ELSE SpeakingNone
SpeakingStateNoHangover(n) == IF n <= 0 THEN SpeakingVoice ELSE SpeakingNone
SpeakingState(n) == IF n <= 1 THEN SpeakingVoice ELSE SpeakingNone

\* line 212: if consecutive_silence > 2: continue
SkipEncodeEarly(n) == n > 1
SkipEncode(n) == n > 2

\* line 209: the clients the state is signalled to
NeedsSignalAlways(c, speaking) == IsConnected(c)
NeedsSignalVoiceOnly(c, speaking) ==
    /\ IsConnected(c)
    /\ voice_clients[c].dmb_speaking # speaking
    /\ speaking = SpeakingVoice
NeedsSignal(c, speaking) ==
    IsConnected(c) /\ voice_clients[c].dmb_speaking # speaking

\* the trace, where one is kept
Log(log, h, frame) == IF log THEN Append(h, frame) ELSE h
Relog(log, h, frame) == IF log THEN [h EXCEPT ![Len(h)] = frame] ELSE h

\* lines 195-213: get a frame, classify it, signal the speaking state
LoopGet(log) ==
    /\ loop_pc = "get"
    /\ audio_queue # <<>>
    /\ audio_queue' = Tail(audio_queue)
    /\ IF Head(audio_queue) = None
       THEN /\ loop_pc' = "done"
            /\ event' = Ev("loop", "-", "returned")
            /\ UNCHANGED <<buffer, consecutive_silence, voice_clients, hist>>
       ELSE LET gate == Gate(muted, Head(audio_queue), consecutive_silence)
                speaking == SpeakingState(gate.silence)
                signalled == {c \in Channels : NeedsSignal(c, speaking)}
                skip == SkipEncode(gate.silence)
            IN  /\ consecutive_silence' = gate.silence
                /\ voice_clients' =
                     [c \in Channels |->
                        IF c \in signalled
                        THEN [voice_clients[c] EXCEPT
                                !.dmb_speaking = speaking,
                                !.last_signal = speaking]
                        ELSE voice_clients[c]]
                /\ loop_pc' = IF skip THEN LoopTop(running) ELSE "encode"
                /\ buffer' = IF skip THEN None ELSE gate.buffer
                /\ event' = [Ev("loop", "-", IF skip THEN "skipped" ELSE "gated")
                               EXCEPT !.speaking = speaking,
                                      !.signalled = signalled,
                                      !.taken = Head(audio_queue)]
                /\ hist' = Log(log, hist,
                               [captured |-> Head(audio_queue),
                                muted |-> muted,
                                connected |-> Connected,
                                silence |-> gate.silence,
                                speaking |-> speaking,
                                signalled |-> signalled,
                                encoded |-> <<>>,
                                sent |-> {}])
    /\ UNCHANGED device_vars
    /\ UNCHANGED <<running, callbacks, muted, joined, connecting, leaving,
                   stop_pc>>

\* lines 220-221: the clients the packet is sent to
ReceiversPresent == {c \in Channels : Present(c)}
Receivers == Connected

\* discord_client.voice_clients as a list: the clients in an order
Orders(S) ==
    {o \in [1..Cardinality(S) -> S] : \A c \in S : \E i \in DOMAIN o : o[i] = c}

\* lines 220-225: the packet is offered to the clients in the order of the
\* list; a send that raises is printed and the iteration goes on
RECURSIVE FanOutAborts(_, _, _)
FanOutAborts(order, failing, packet) ==
    IF order = <<>> THEN [offers |-> <<>>, printed |-> {}, raised |-> FALSE]
    ELSE IF Head(order) \notin Receivers
    THEN FanOutAborts(Tail(order), failing, packet)
    ELSE IF Head(order) \in failing
    THEN [offers |-> <<[to |-> Head(order), packet |-> packet]>>,
          printed |-> {}, raised |-> TRUE]
    ELSE LET rest == FanOutAborts(Tail(order), failing, packet) IN
         [rest EXCEPT
            !.offers = <<[to |-> Head(order), packet |-> packet]>> \o @]
RECURSIVE FanOut(_, _, _)
FanOut(order, failing, packet) ==
    IF order = <<>> THEN [offers |-> <<>>, printed |-> {}, raised |-> FALSE]
    ELSE IF Head(order) \notin Receivers
    THEN FanOut(Tail(order), failing, packet)
    ELSE LET rest == FanOut(Tail(order), failing, packet) IN
         [rest EXCEPT
            !.offers = <<[to |-> Head(order), packet |-> packet]>> \o @,
            !.printed = IF Head(order) \in failing
                        THEN {Head(order)} \cup @ ELSE @]

\* lines 215-225: encode the buffer, send the packet to the connected
\* clients; send_audio_packet may raise for any of them
LoopEncode(log) ==
    /\ loop_pc = "encode"
    /\ \E order \in Orders({c \in Channels : Present(c)}),
          failing \in SUBSET Connected :
        LET packet == OpusEncode(buffer)
            fan == FanOut(order, failing, packet)
            sent == {fan.offers[i] : i \in 1..Len(fan.offers)}
        IN  /\ event' = [Ev("loop", "-", IF fan.raised THEN "raised" ELSE "sent")
                           EXCEPT !.encoded = <<packet>>,
                                  !.sent = sent,
                                  !.offers = fan.offers,
                                  !.failed = failing]
            /\ hist' = Relog(log, hist,
                             [hist[Len(hist)] EXCEPT !.encoded = <<packet>>,
                                                     !.sent = sent])
            /\ loop_pc' = IF fan.raised THEN "raised" ELSE LoopTop(running)
    /\ buffer' = None
    /\ UNCHANGED device_vars
    /\ UNCHANGED <<running, audio_queue, callbacks, muted, joined,
                   voice_clients, connecting, leaving, consecutive_silence,
                   stop_pc>>

\* set_muted
SetMuted(m) ==
    /\ MainThreadFree
    /\ muted' = m
    /\ event' = Quiet
    /\ UNCHANGED device_vars
    /\ UNCHANGED <<running, audio_queue, callbacks, joined, voice_clients,
                   connecting, leaving, loop_pc, buffer, consecutive_silence,
                   stop_pc, hist>>

(***************************************************************************)
(* start_recording and set_bitrate.                                        *)
(***************************************************************************)
\* the (hostapi, device) pairs start_recording is called with: a device whose
\* stream starts, one whose stream fails to start, one that RawInputStream
\* fails to open, and a pair that matches no input device
Devices == {"good", "unstartable", "unopenable", "unknown"}

\* lines 160-165: the search of the device list
FoundAlways(dev) == TRUE
Found(dev) == dev # "unknown"

\* lines 151-154: stop and close the stream in use
CloseOldLeaks(stream, open) ==
    [stream |-> NoStream, open |-> open, closed |-> <<>>]
CloseOld(stream, open) ==
    [stream |-> NoStream, open |-> open \ {stream},
     closed |-> IF stream = NoStream THEN <<>> ELSE <<stream>>]

\* lines 167-173: open a stream and start it; a failed start closes the
\* handle and re-raises
OpenStream(dev, open) ==
    LET h == CHOOSE h \in Handles \ open : TRUE IN
    IF dev = "unopenable"
    THEN [stream |-> NoStream, open |-> open, closed |-> <<>>,
          outcome |-> "raised"]
    ELSE IF dev = "unstartable"
    THEN [stream |-> NoStream, open |-> open, closed |-> <<h>>,
          outcome |-> "raised"]
    ELSE [stream |-> h, open |-> open \cup {h}, closed |-> <<>>,
          outcome |-> "started"]

\* start_recording
StartRecording(dev) ==
    /\ MainThreadFree
    /\ LET old == CloseOld(input_stream, open_streams) IN
       IF ~Found(dev)
       THEN /\ input_stream' = old.stream
            /\ open_streams' = old.open
            /\ event' = [Ev("start_recording", dev, "returned")
                           EXCEPT !.closed = old.closed]
       ELSE /\ Handles \ old.open # {}
            /\ LET new == OpenStream(dev, old.open) IN
                /\ input_stream' = new.stream
                /\ open_streams' = new.open
                /\ event' = [Ev("start_recording", dev, new.outcome)
                               EXCEPT !.closed = old.closed \o new.closed]
    /\ UNCHANGED <<running, audio_queue, callbacks, muted, joined,
                   voice_clients, connecting, leaving, loop_pc, buffer,
                   consecutive_silence, stop_pc, bitrate, hist>>

\* the stream delivers blocks
StreamActive == input_stream # NoStream

Min(a, b) == IF a <= b THEN a ELSE b
Max(a, b) == IF a >= b THEN a ELSE b

\* line 176: kbps = min(512, max(12, kbps))
ClampKbpsNoFloor(kbps) == Min(512, kbps)
ClampKbps(kbps) == Min(512, Max(12, kbps))

\* set_bitrate
SetBitrate(kbps) ==
    /\ MainThreadFree
    /\ bitrate' = ClampKbps(kbps) * 1000
    /\ event' = [Ev("set_bitrate", "-", "set") EXCEPT !.kbps = kbps]
    /\ UNCHANGED <<running, audio_queue, callbacks, muted, joined,
                   voice_clients, connecting, leaving, loop_pc, buffer,
                   consecutive_silence, stop_pc, input_stream, open_streams,
                   hist>>

\* the values set_bitrate is called with
BitrateInputs == {-1, 0, 11, 12, 13, 128, 511, 512, 513, 1000}

(***************************************************************************)
(* join_voice and leave_voice.  channel.connect() registers a voice client *)
(* at once and completes (or raises) after the handshake; it raises at     *)
(* once when the client list already holds a client for the channel.       *)
(***************************************************************************)
\* line 124: if channel in self.joined: return
AlreadyJoinedNever(c) == FALSE
AlreadyJoined(c) == InJoined(c)

\* lines 130-132: except Exception: print(e); self.joined.remove(channel)
ConnectFailedKeeps(j, c) ==
    [joined |-> j,
     outcome |-> IF \E i \in 1..Len(j) : j[i] = c THEN "printed" ELSE "ValueError"]
ConnectFailed(j, c) ==
    [joined |-> Remove(j, c),
     outcome |-> IF \E i \in 1..Len(j) : j[i] = c THEN "printed" ELSE "ValueError"]

\* join_voice up to its await; a call that would start a second connect of
\* the channel while one is pending is left out
JoinVoice(c) ==
    /\ MainThreadFree
    /\ IF AlreadyJoined(c)
       THEN /\ event' = Ev("join", c, "already")
            /\ UNCHANGED <<joined, voice_clients, connecting>>
       ELSE IF Present(c)
       THEN \* connect() raises before it suspends
            LET failed == ConnectFailed(Append(joined, c), c) IN
            /\ joined' = failed.joined
            /\ event' = Ev("join", c, failed.outcome)
            /\ UNCHANGED <<voice_clients, connecting>>
       ELSE /\ ~connecting[c]
            /\ joined' = Append(joined, c)
            /\ voice_clients' = [voice_clients EXCEPT ![c] = NewClient]
            /\ connecting' = [connecting EXCEPT ![c] = TRUE]
            /\ event' = Ev("join", c, "connecting")
    /\ UNCHANGED device_vars
    /\ UNCHANGED <<running, audio_queue, callbacks, muted, leaving, loop_pc,
                   buffer, consecutive_silence, stop_pc, hist>>

\* join_voice from the completion of connect() to its end
ConnectDone(c, ok) ==
    /\ MainThreadFree
    /\ connecting[c]
    /\ connecting' = [connecting EXCEPT ![c] = FALSE]
    /\ IF ok
       THEN /\ voice_clients[c].status = "connecting"
            /\ voice_clients' = [voice_clients EXCEPT ![c].status = "connected"]
            /\ event' = Ev("join.connect", c, "connected")
            /\ UNCHANGED joined
       ELSE LET failed == ConnectFailed(joined, c) IN
            /\ voice_clients' = [voice_clients EXCEPT ![c] = NoClient]
            /\ joined' = failed.joined
            /\ event' = Ev("join.connect", c, failed.outcome)
    /\ UNCHANGED device_vars
    /\ UNCHANGED <<running, audio_queue, callbacks, muted, leaving, loop_pc,
                   buffer, consecutive_silence, stop_pc, hist>>

\* leave_voice up to its await; a call made while an earlier leave_voice of
\* the channel is suspended is left out
LeaveVoice(c) ==
    /\ MainThreadFree
    /\ ~leaving[c]
    /\ IF ~InJoined(c)
       THEN \* self.joined.remove(channel) raises
            /\ event' = Ev("leave", c, "ValueError")
            /\ UNCHANGED <<joined, leaving>>
       ELSE /\ joined' = Remove(joined, c)
            /\ IF Present(c)
               THEN /\ leaving' = [leaving EXCEPT ![c] = TRUE]
                    /\ event' = Ev("leave", c, "disconnecting")
               ELSE /\ event' = Ev("leave", c, "left")
                    /\ UNCHANGED leaving
    /\ UNCHANGED device_vars
    /\ UNCHANGED <<running, audio_queue, callbacks, muted, voice_clients,
                   connecting, loop_pc, buffer, consecutive_silence, stop_pc,
                   hist>>

\* leave_voice after asyncio.wait: disconnect() of a client that is not
\* connected returns at once, the client stays in the list
DisconnectDone(c) ==
    /\ MainThreadFree
    /\ leaving[c]
    /\ leaving' = [leaving EXCEPT ![c] = FALSE]
    /\ voice_clients' = [voice_clients EXCEPT ![c] =
                           IF IsConnected(c) THEN NoClient ELSE @]
    /\ event' = Ev("leave.disconnect", c, "left")
    /\ UNCHANGED device_vars
    /\ UNCHANGED <<running, audio_queue, callbacks, muted, joined, connecting,
                   loop_pc, buffer, consecutive_silence, stop_pc, hist>>

\* the voice connection drops and the client reconnects: is_connected()
ConnectionLost(c) ==
    /\ MainThreadFree
    /\ IsConnected(c)
    /\ voice_clients' = [voice_clients EXCEPT ![c].status = "lost"]
    /\ event' = Quiet
    /\ UNCHANGED device_vars
    /\ UNCHANGED <<running, audio_queue, callbacks, muted, joined, connecting,
                   leaving, loop_pc, buffer, consecutive_silence, stop_pc, hist>>

ConnectionRestored(c) ==
    /\ MainThreadFree
    /\ voice_clients[c].status = "lost"
    /\ voice_clients' = [voice_clients EXCEPT ![c].status = "connected"]
    /\ event' = Quiet
    /\ UNCHANGED device_vars
    /\ UNCHANGED <<running, audio_queue, callbacks, muted, joined, connecting,
                   leaving, loop_pc, buffer, consecutive_silence, stop_pc, hist>>

(***************************************************************************)
(* stop()                                                                  *)
(***************************************************************************)
\* stop() up to its first suspension: put() waits while the queue is full
Stop ==
    /\ MainThreadFree
    /\ stop_pc = "idle"
    /\ running' = FALSE
    /\ IF Full(audio_queue)
       THEN /\ stop_pc' = "put"
            /\ event' = Ev("stop", "-", "waiting")
            /\ UNCHANGED audio_queue
       ELSE /\ audio_queue' = Append(audio_queue, None)
            /\ stop_pc' = "logout"
            /\ event' = Ev("stop", "-", "put")
    /\ UNCHANGED device_vars
    /\ UNCHANGED <<callbacks, muted, joined, voice_clients, connecting,
                   leaving, loop_pc, buffer, consecutive_silence, hist>>

\* the suspended put() goes on once the queue has room
StopPut ==
    /\ MainThreadFree
    /\ stop_pc = "put"
    /\ ~Full(audio_queue)
    /\ audio_queue' = Append(audio_queue, None)
    /\ stop_pc' = "logout"
    /\ event' = Ev("stop", "-", "put")
    /\ UNCHANGED device_vars
    /\ UNCHANGED <<running, callbacks, muted, joined, voice_clients,
                   connecting, leaving, loop_pc, buffer, consecutive_silence,
                   hist>>

\* await self.discord_client.logout(): the client closes its voice clients
StopLogout ==
    /\ MainThreadFree
    /\ stop_pc = "logout"
    /\ stop_pc' = "done"
    /\ voice_clients' = [c \in Channels |-> NoClient]
    /\ event' = Quiet
    /\ UNCHANGED device_vars
    /\ UNCHANGED <<running, audio_queue, callbacks, muted, joined, connecting,
                   leaving, loop_pc, buffer, consecutive_silence, hist>>

\* Spec: every handler but set_bitrate, one channel, any block; the device
\* delivers while a stream is active and pauses when the counter of silent
\* frames would pass MaxSilence
MayCapture ==
    StreamActive /\ consecutive_silence + InFlight < MaxSilence

NextFor(chs) ==
    \/ \E d \in Devices : StartRecording(d)
    \/ \E f \in CapturedFrames : MayCapture /\ RecordingCallback(f)
    \/ RecordingCallbackMainThread
    \/ Run
    \/ LoopGet(FALSE)
    \/ LoopEncode(FALSE)
    \/ \E m \in BOOLEAN : SetMuted(m)
    \/ \E c \in chs : JoinVoice(c)
    \/ \E c \in chs, ok \in BOOLEAN : ConnectDone(c, ok)
    \/ \E c \in chs : LeaveVoice(c)
    \/ \E c \in chs : DisconnectDone(c)
    \/ \E c \in chs : ConnectionLost(c)
    \/ \E c \in chs : ConnectionRestored(c)
    \/ Stop
    \/ StopPut
    \/ StopLogout

Next == NextFor({"A"})

Spec == Init /\ [][Next]_vars

\* SpecSessions: two channels, every session handler, loud blocks that
\* set_muted silences, no stop()
NextSessions ==
    \/ StartRecording("good")
    \/ \E f \in {LoudFrame} : MayCapture /\ RecordingCallback(f)
    \/ RecordingCallbackMainThread
    \/ Run
    \/ LoopGet(FALSE)
    \/ LoopEncode(FALSE)
    \/ \E m \in BOOLEAN : SetMuted(m)
    \/ \E c \in Channels : JoinVoice(c)
    \/ \E c \in Channels, ok \in BOOLEAN : ConnectDone(c, ok)
    \/ \E c \in Channels : LeaveVoice(c)
    \/ \E c \in Channels : DisconnectDone(c)
    \/ \E c \in Channels : ConnectionLost(c)
    \/ \E c \in Channels : ConnectionRestored(c)

SpecSessions == Init /\ [][NextSessions]_vars

\* SpecGate: the loop alone, any block, set_muted, a trace of GateFrames frames
NextGate ==
    \/ StartRecording("good")
    \/ \E f \in CapturedFrames :
         /\ StreamActive
         /\ Len(hist) + InFlight < GateFrames
         /\ RecordingCallback(f)
    \/ RecordingCallbackMainThread
    \/ Run
    \/ LoopGet(TRUE)
    \/ LoopEncode(TRUE)
    \/ \E m \in BOOLEAN : SetMuted(m)

SpecGate == Init /\ [][NextGate]_vars

\* SpecScenario: channel A is joined, loud or silent blocks, never muted, a
\* trace of ScenarioFrames frames
NextScenario ==
    \/ StartRecording("good")
    \/ \E f \in {SilentFrame, LoudFrame} :
         /\ StreamActive
         /\ Len(hist) + InFlight < ScenarioFrames
         /\ RecordingCallback(f)
    \/ RecordingCallbackMainThread
    \/ Run
    \/ LoopGet(TRUE)
    \/ LoopEncode(TRUE)
    \/ JoinVoice("A")
    \/ ConnectDone("A", TRUE)

SpecScenario == Init /\ [][NextScenario]_vars

\* SpecDevice: the capture stream and the encoder setting with the loop
NextDevice ==
    \/ \E d \in Devices : StartRecording(d)
    \/ \E k \in BitrateInputs : SetBitrate(k)
    \/ \E f \in CapturedFrames : MayCapture /\ RecordingCallback(f)
    \/ RecordingCallbackMainThread
    \/ Run
    \/ LoopGet(FALSE)
    \/ LoopEncode(FALSE)

SpecDevice == Init /\ [][NextDevice]_vars

\* SpecStop: stop() against the loop and the capture callbacks, with the
\* session of channel A; the blocks captured once stop() has been called are
\* the NegZeroFrame ones. The event loop runs every callback and every task
\* that is ready: weak fairness of its steps.
FramesWhen(r) == IF r THEN {SilentFrame, LoudFrame} ELSE {NegZeroFrame}

NextStop ==
    \/ StartRecording("good")
    \/ \E f \in FramesWhen(running) : MayCapture /\ RecordingCallback(f)
    \/ RecordingCallbackMainThread
    \/ Run
    \/ LoopGet(FALSE)
    \/ LoopEncode(FALSE)
    \/ JoinVoice("A")
    \/ ConnectDone("A", TRUE)
    \/ Stop
    \/ StopPut
    \/ StopLogout

SpecStop ==
    /\ Init
    /\ [][NextStop]_vars
    /\ WF_vars(RecordingCallbackMainThread)
    /\ WF_vars(Run)
    /\ WF_vars(LoopGet(FALSE))
    /\ WF_vars(LoopEncode(FALSE))
    /\ WF_vars(StopPut)

(***************************************************************************)
(* The claims.                                                             *)
(***************************************************************************)

\* C1: in every reachable state the handoff slot audio_queue holds at most
\* one item, whatever the order of capture callbacks, loop reads and stop().
HandoffHoldsAtMostOne == Len(audio_queue) <= 1

\* C1 witness: a second frame arrived while the slot was occupied and was
\* dropped, and stop() is waiting to put its sentinel in the occupied slot.
FrameDroppedWhileStopWaits ==
    /\ event.op = "callback"
    /\ event.outcome = "dropped"
    /\ Len(audio_queue) = 1
    /\ stop_pc = "put"

\* C2: the producer never waits. The audio thread's step is enabled whenever
\* the device has a block, and the scheduled callback is enabled whenever the
\* event loop can run it, whatever the slot, the loop and stop() are doing;
\* and a callback that finds the slot occupied leaves the slot as it was,
\* raises nothing and changes nothing else.
ProducerNeverWaits ==
    /\ [](\A f \in CapturedFrames :
            Len(callbacks) < MaxPending => ENABLED RecordingCallback(f))
    /\ [](callbacks # <<>> /\ MainThreadFree
            => ENABLED RecordingCallbackMainThread)
    /\ [][event'.op = "callback" =>
            /\ event'.outcome \in {"queued", "dropped"}
            /\ Full(audio_queue) =>
                 /\ event'.outcome = "dropped"
                 /\ UNCHANGED <<audio_queue, running, loop_pc, buffer,
                                consecutive_silence, stop_pc>>
            /\ ~Full(audio_queue) =>
                 /\ event'.outcome = "queued"
                 /\ audio_queue' = <<Head(callbacks)>>]_vars

\* C2 witness: a frame was discarded because the slot was occupied, after the
\* loop had returned.
FrameDroppedAfterLoopReturned ==
    /\ event.op = "callback"
    /\ event.outcome = "dropped"
    /\ loop_pc = "done"
    /\ audio_queue # <<>>
    /\ audio_queue[1] # None

\* for each frame of the trace: it was muted, or every sample of the block
\* has the value zero (+0.0 or -0.0)
MutedOrZeroSamples ==
    [i \in 1..Len(hist) |-> hist[i].muted \/ AllZeroSamples(hist[i].captured)]

\* for each frame of the trace: it was muted, or every sample of the block is
\* +0.0, that is, every byte of the block is 0
MutedOrZeroBytes ==
    [i \in 1..Len(hist) |->
        \/ hist[i].muted
        \/ \A k \in 1..(Len(hist[i].captured) \div SampleBytes) :
             SampleAt(hist[i].captured, k) = PosZero]

\* the number of trailing frames of the trace that are flagged silent
Trailing(silent) ==
    LET others == {i \in 1..Len(silent) : ~silent[i]}
        latest == CHOOSE i \in others : \A j \in others : j <= i
    IN  IF others = {} THEN Len(silent) ELSE Len(silent) - latest

\* the counter after each frame of the trace, frame by frame
CountsFrameByFrame(silent) ==
    \A i \in 1..Len(hist) :
        LET before == IF i = 1 THEN 0 ELSE hist[i - 1].silence IN
        hist[i].silence = IF silent[i] THEN before + 1 ELSE 0

\* C3 as stated: after any sequence of frames consecutive_silence is the
\* number of trailing frames that were muted or made of zero samples only; it
\* is 0 right after any other frame and otherwise one more than before.
SilenceCountsZeroSamples ==
    loop_pc # "login" =>
        /\ consecutive_silence = Trailing(MutedOrZeroSamples)
        /\ CountsFrameByFrame(MutedOrZeroSamples)

\* C3 as amended: after any sequence of frames consecutive_silence is the
\* number of trailing frames that were muted or made of zero bytes only (all
\* samples +0.0); it is 0 right after any other frame, a frame holding a
\* -0.0 sample included, and otherwise one more than before.
SilenceCountsZeroBytes ==
    loop_pc # "login" =>
        /\ consecutive_silence = Trailing(MutedOrZeroBytes)
        /\ CountsFrameByFrame(MutedOrZeroBytes)

\* C3 witness: a loud frame, then a silent one, then a muted loud one, then a
\* frame of -0.0 samples that resets the counter.
CounterGrewAndReset ==
    /\ Len(hist) = 4
    /\ hist[1].captured = LoudFrame /\ ~hist[1].muted
    /\ hist[2].captured = SilentFrame /\ ~hist[2].muted
    /\ hist[3].captured = LoudFrame /\ hist[3].muted
    /\ hist[3].silence = 2
    /\ hist[4].captured = NegZeroFrame /\ ~hist[4].muted
    /\ consecutive_silence = 0

\* a frame of the trace that counted as silent
Counted(i) == hist[i].silence > 0

\* C4: for every processed frame the state is Speaking exactly when the
\* counter after the frame is 0 or 1 and Silent exactly when it is 2 or more;
\* so one silent frame between two frames that reset the counter is Speaking.
StateFollowsCounter ==
    /\ \A i \in 1..Len(hist) :
        /\ hist[i].speaking = SpeakingVoice <=> hist[i].silence \in {0, 1}
        /\ hist[i].speaking = SpeakingNone <=> hist[i].silence >= 2
    /\ \A i \in 2..(Len(hist) - 1) :
        ~Counted(i - 1) /\ Counted(i) /\ ~Counted(i + 1)
            => hist[i].speaking = SpeakingVoice

\* C4 witness: a trace with an isolated silent frame, and later a frame with
\* counter 2 that is Silent.
IsolatedSilentFrameThenSilent ==
    /\ Len(hist) = 5
    /\ ~Counted(1) /\ Counted(2) /\ ~Counted(3)
    /\ hist[2].speaking = SpeakingVoice
    /\ \E i \in 1..Len(hist) :
         hist[i].silence = 2 /\ hist[i].speaking = SpeakingNone

\* the step just taken was the loop classifying a frame
FrameGated == event.op = "loop" /\ event.outcome \in {"gated", "skipped"}
\* the step just taken was the loop encoding and sending
FrameSent == event.op = "loop" /\ event.outcome = "sent"

\* C5: a frame is encoded and fanned out exactly when the counter after the
\* frame is at most 2: with 3 or more the loop goes back to the queue with
\* nothing encoded or sent, with 2 or less it goes on to encode the buffer
\* once and to send that packet to the connected clients.
EncodeIffCounterAtMostTwo ==
    /\ FrameGated =>
        /\ event.outcome = "skipped" <=> consecutive_silence >= 3
        /\ event.outcome = "gated" <=> consecutive_silence <= 2
        /\ event.outcome = "gated" <=> loop_pc = "encode"
        /\ event.encoded = <<>> /\ event.sent = {}
    /\ loop_pc = "encode" => consecutive_silence <= 2 /\ ENABLED LoopEncode(FALSE)
    /\ FrameSent =>
        /\ consecutive_silence <= 2
        /\ Len(event.encoded) = 1
        /\ event.sent = {[to |-> c, packet |-> event.encoded[1]] :
                           c \in Connected}

\* C5 witness: the third silent frame in a row was skipped while a client was
\* connected.
ThirdSilentFrameSkipped ==
    /\ FrameGated
    /\ event.outcome = "skipped"
    /\ consecutive_silence = 3
    /\ Connected # {}

\* the state last signalled to the client of channel c, Silent before any
LastSignalled(c) ==
    IF voice_clients[c].last_signal = "nothing" THEN SpeakingNone
    ELSE voice_clients[c].last_signal

\* a session: the voice client of a channel whose join succeeded
Session(c) == voice_clients[c].status \in {"connected", "lost"}

\* C6 as stated: for every session, connected or not, and every processed
\* frame a speaking signal is emitted to the session exactly when the state
\* computed for the frame differs from the state last signalled to it
\* (Silent at first).
SignalToEverySessionOnChange ==
    [][(event'.op = "loop" /\ event'.outcome \in {"gated", "skipped"}) =>
        \A c \in Channels :
            Session(c) =>
                (c \in event'.signalled <=> LastSignalled(c) # event'.speaking)
      ]_vars

\* C6 as amended: for every session that is connected when a frame is
\* processed a speaking signal is emitted to the session exactly when the
\* state computed for the frame differs from the state last signalled to it
\* (Silent at first); a signal never repeats the state of the session's
\* previous signal, and a client that is not connected is sent none.
SignalExactlyOnChange ==
    [][(event'.op = "loop" /\ event'.outcome \in {"gated", "skipped"}) =>
        \A c \in Channels :
            /\ IsConnected(c) =>
                 (c \in event'.signalled <=> LastSignalled(c) # event'.speaking)
            /\ c \in event'.signalled =>
                 /\ IsConnected(c)
                 /\ voice_clients[c].last_signal # event'.speaking
                 /\ voice_clients'[c].last_signal = event'.speaking
            /\ c \notin event'.signalled =>
                 voice_clients'[c].last_signal = voice_clients[c].last_signal
      ]_vars

\* C6 witness: one frame turned a session from Speaking to Silent with a
\* signal while the other session, joined during silence, got none.
OneSignalledOneNot ==
    /\ FrameGated
    /\ event.speaking = SpeakingNone
    /\ event.signalled = {"A"}
    /\ voice_clients["A"].last_signal = SpeakingNone
    /\ IsConnected("B")
    /\ voice_clients["B"].last_signal = "nothing"

\* C7 as stated: after each processed frame the last-signalled state of
\* every session, connected or not, is the state computed for that frame.
EverySessionFollowsState ==
    FrameGated =>
        \A c \in Channels :
            Session(c) => voice_clients[c].dmb_speaking = event.speaking

\* C7 as amended: after each processed frame the last-signalled state of
\* every session that is connected when the frame is processed is the state
\* computed for that frame; the frame leaves a client that is not connected
\* as it was.
ConnectedSessionFollowsState ==
    [][(event'.op = "loop" /\ event'.outcome \in {"gated", "skipped"}) =>
        \A c \in Channels :
            /\ IsConnected(c) =>
                 voice_clients'[c].dmb_speaking = event'.speaking
            /\ ~IsConnected(c) => voice_clients'[c] = voice_clients[c]
      ]_vars

\* C7 witness: a frame computed Silent, the connected session was signalled
\* Silent and the session whose connection is lost still stands at Speaking.
LostSessionKeepsOldState ==
    /\ FrameGated
    /\ event.speaking = SpeakingNone
    /\ IsConnected("A")
    /\ voice_clients["A"].dmb_speaking = SpeakingNone
    /\ voice_clients["A"].last_signal = SpeakingNone
    /\ voice_clients["B"].status = "lost"
    /\ voice_clients["B"].dmb_speaking = SpeakingVoice

\* the scenario of C8: five loud frames, then four silent ones
Scenario ==
    <<LoudFrame, LoudFrame, LoudFrame, LoudFrame, LoudFrame,
      SilentFrame, SilentFrame, SilentFrame, SilentFrame>>

\* the trace starts with the scenario, processed to its end, with the session
\* of channel A connected and nothing muted
ScenarioRan ==
    /\ Len(hist) >= Len(Scenario)
    /\ Len(hist) = Len(Scenario) => loop_pc # "encode"
    /\ \A i \in 1..Len(Scenario) :
        /\ hist[i].captured = Scenario[i]
        /\ ~hist[i].muted
        /\ hist[i].connected = {"A"}

\* C8: in the scenario the session is signalled Speaking at frame 1 and
\* Silent at frame 7 and at no other frame; frames 1-7 are each encoded and
\* sent to the session (frame 6 with counter 1 still Speaking, frame 7 with
\* counter 2); frames 8 and 9 are neither encoded nor sent.
ScenarioTrace ==
    ScenarioRan =>
        /\ [i \in 1..9 |-> hist[i].silence] = <<0, 0, 0, 0, 0, 1, 2, 3, 4>>
        /\ [i \in 1..9 |-> hist[i].signalled] =
             <<{"A"}, {}, {}, {}, {}, {}, {"A"}, {}, {}>>
        /\ \A i \in 1..6 : hist[i].speaking = SpeakingVoice
        /\ \A i \in 7..9 : hist[i].speaking = SpeakingNone
        /\ \A i \in 1..7 :
            /\ hist[i].encoded = <<OpusEncode(Scenario[i])>>
            /\ hist[i].sent =
                 {[to |-> "A", packet |-> OpusEncode(Scenario[i])]}
        /\ \A i \in 8..9 : hist[i].encoded = <<>> /\ hist[i].sent = {}

\* C8 witness: the scenario has run to the end of its ninth frame.
ScenarioCompleted == ScenarioRan /\ Len(hist) = 9

\* no channel is twice in the list
NoDuplicates ==
    \A i, j \in 1..Len(joined) : joined[i] = joined[j] => i = j

\* C9: a join_voice call for a channel that is in the list, an earlier join
\* of it still awaiting its connect included, returns at once: no connect is
\* attempted, the list and the clients stay as they are; and the list never
\* holds a channel twice.
JoinIsIdempotent ==
    /\ []NoDuplicates
    /\ [][\A c \in Channels :
            (event'.op = "join" /\ event'.ch = c /\ InJoined(c)) =>
                /\ event'.outcome = "already"
                /\ UNCHANGED <<joined, voice_clients, connecting>>]_vars

\* C9 witness: a second join_voice of channel A returned at once while the
\* first was suspended in connect.
SecondJoinWhileConnecting ==
    /\ event = Ev("join", "A", "already")
    /\ connecting["A"]
    /\ voice_clients["A"].status = "connecting"
    /\ joined = <<"A">>

\* join_voice ended on a failed connect
ConnectFailure ==
    event.op \in {"join", "join.connect"}
        /\ event.outcome \in {"printed", "ValueError"}
\* the exception of the failed connect reached the caller of join_voice
ReportedToCaller == event.outcome = "ConnectError"
\* the loop was left as it was and is not stopped
LoopUnaffected ==
    UNCHANGED <<running, loop_pc, audio_queue, callbacks, buffer,
                consecutive_silence, stop_pc>>

\* C10 as stated: when the connect of join_voice fails, the channel is not in
\* the list afterwards and the failure is reported to the caller.
FailedJoinIsReported ==
    ConnectFailure => ~InJoined(event.ch) /\ ReportedToCaller

\* C10 as amended: when the connect of join_voice fails, the channel is not
\* in the list when join_voice ends, the failure is printed and not passed to
\* the caller (join_voice returns normally; only if the channel had left the
\* list meanwhile does the handler's remove raise ValueError), and the loop
\* is left as it was.
FailedJoinIsPrinted ==
    [][\A c \in Channels :
        (event'.ch = c /\ event'.op \in {"join", "join.connect"}
                       /\ event'.outcome \notin {"already", "connecting",
                                                 "connected"}) =>
            /\ ~InJoined(c)'
            /\ event'.outcome = IF event'.op = "join" \/ InJoined(c)
                                THEN "printed" ELSE "ValueError"
            /\ LoopUnaffected]_vars

\* C10 witness: a connect failed, join_voice printed it and returned, the
\* channel is out of the list and the loop has a frame to take next.
FailedJoinLoopGoesOn ==
    /\ event = Ev("join.connect", "A", "printed")
    /\ ~InJoined("A")
    /\ loop_pc = "get"
    /\ audio_queue = <<LoudFrame>>
    /\ running
    /\ ENABLED LoopGet(FALSE)

\* leave_voice raised to its caller
LeaveRaised == event.op = "leave" /\ event.outcome = "ValueError"

\* C11: leave_voice of a channel that is not in the list (never joined, or
\* already left) is a no-op: the list is unchanged and nothing is raised to
\* the caller.
LeaveOfAbsentIsNoOp ==
    [][\A c \in Channels :
        (event'.op = "leave" /\ event'.ch = c /\ ~InJoined(c)) =>
            /\ ~LeaveRaised'
            /\ joined' = joined]_vars

\* the step just taken was the loop encoding a frame and offering the packet
FannedOut == event.op = "loop" /\ event.encoded # <<>>

\* C12: when a send raises for one connected session during the fan-out of
\* a frame's packet, the loop is not stopped (it goes back to the top of its
\* while) and the same packet is still offered to every other connected
\* session in that frame, wherever the failing session stands in the list.
SendFailureIsIsolated ==
    /\ loop_pc # "raised"
    /\ FannedOut =>
        /\ event.outcome = "sent"
        /\ loop_pc = LoopTop(running)
        /\ \A c \in Connected :
             \E i \in 1..Len(event.offers) :
                event.offers[i] = [to |-> c, packet |-> event.encoded[1]]

\* C12 witness: the send to session A, first in the list, raised and the
\* packet was still offered to session B after it.
SendToAFailedBStillServed ==
    /\ FannedOut
    /\ event.failed = {"A"}
    /\ Len(event.offers) = 2
    /\ event.offers[1].to = "A"
    /\ event.offers[2] = [to |-> "B", packet |-> OpusEncode(LoudFrame)]
    /\ loop_pc = "get"

\* the loop is in its while: it waits for a frame or processes one
LoopRunning == loop_pc \in {"get", "encode"}

\* C13: once stop() has been called while the loop is running, the loop
\* eventually returns; from then on it takes at most one more frame, the one
\* that was in the slot, and goes to its end after it; and no frame captured
\* after the call is ever classified (and so signalled), encoded or sent.
StopEndsLoop ==
    /\ (~running /\ LoopRunning) ~> (loop_pc = "done")
    /\ [][(~running /\ event'.op = "loop") =>
            /\ loop_pc' \in {"encode", "done"}
            /\ loop_pc = "encode" => loop_pc' = "done"]_vars
    /\ [](FrameGated => event.taken \notin FramesWhen(FALSE))
    /\ [](FannedOut => event.encoded[1].pcm \notin FramesWhen(FALSE))

\* C13 witness: stop() found the slot occupied; the loop took that frame,
\* sent it to session A and returned, and a frame captured after the call is
\* left unprocessed.
InFlightFrameSentThenLoopDone ==
    /\ ~running
    /\ stop_pc = "put"
    /\ FannedOut
    /\ event.sent # {}
    /\ loop_pc = "done"
    /\ callbacks = <<NegZeroFrame>>

\* C14: set_bitrate(kbps) accepts every integer and sets the encoder to
\* min(512, max(12, kbps)) kbps: 12 below 12, 512 above 512, kbps itself in
\* between (1000 gives 512, 0 gives 12); so the bitrate of the encoder is
\* always within 12000..512000 bits per second.
BitrateIsClamped ==
    /\ [](bitrate >= 12000 /\ bitrate <= 512000)
    /\ [](MainThreadFree => \A k \in BitrateInputs : ENABLED SetBitrate(k))
    /\ [][event'.op = "set_bitrate" =>
            /\ event'.outcome = "set"
            /\ event'.kbps < 12 => bitrate' = 12000
            /\ event'.kbps > 512 => bitrate' = 512000
            /\ (event'.kbps >= 12 /\ event'.kbps <= 512) =>
                 bitrate' = 1000 * event'.kbps
            /\ event'.kbps = 1000 => bitrate' = 512000
            /\ event'.kbps = 0 => bitrate' = 12000]_vars

\* C14 witness: set_bitrate(0) has just set the encoder to 12 kbps, with a
\* stream open and the loop waiting for a frame.
ZeroKbpsGaveTwelve ==
    /\ event.op = "set_bitrate"
    /\ event.kbps = 0
    /\ bitrate = 12000
    /\ StreamActive
    /\ loop_pc = "get"

\* the step just taken was a start_recording call
Started == event.op = "start_recording"

\* C15: whatever start_recording calls are made (a stream that starts, one
\* that fails to start, one that cannot be opened, an unknown device), at
\* most one stream handle is open and it is the one in input_stream; a call
\* closes the stream that was in use before it opens another; and a call
\* that raises leaves no handle open and no stream in input_stream.
AtMostOneStreamOpen ==
    /\ [](Cardinality(open_streams) <= 1)
    /\ [](open_streams = {input_stream} \ {NoStream})
    /\ [][Started' =>
            /\ input_stream # NoStream =>
                 /\ event'.closed # <<>>
                 /\ event'.closed[1] = input_stream
            /\ event'.outcome = "raised" =>
                 input_stream' = NoStream /\ open_streams' = {}
            /\ event'.outcome = "started" =>
                 input_stream' # NoStream /\ open_streams' = {input_stream'}
          ]_vars

\* C15 witness: with a stream in use, start_recording was called for a
\* device whose stream fails to start: the old handle and the new one were
\* closed, in this order, and the error went to the caller.
RestartFailedBothClosed ==
    /\ Started
    /\ event.ch = "unstartable"
    /\ event.outcome = "raised"
    /\ Len(event.closed) = 2
    /\ input_stream = NoStream
    /\ open_streams = {}
    /\ callbacks # <<>>

\* start_recording was just called for a pair that matches no input device
UnknownDevice == Started /\ event.ch = "unknown"

\* C16 as stated: start_recording for a pair that matches no input device
\* fails with a DeviceError reported to the caller and leaves the capture
\* state, the stream in use included, as it was before the call.
UnknownDeviceIsAnError ==
    [][UnknownDevice' =>
        /\ event'.outcome = "DeviceError"
        /\ UNCHANGED <<input_stream, open_streams>>]_vars

\* C16 as amended: start_recording for a pair that matches no input device
\* raises nothing and returns normally; it has first stopped and closed the
\* stream in use, if any, so that afterwards no stream is active and no
\* handle is open; nothing else changes, and no stream is opened.
UnknownDeviceClosesAndReturns ==
    [][UnknownDevice' =>
        /\ event'.outcome = "returned"
        /\ input_stream' = NoStream
        /\ open_streams' = {}
        /\ event'.closed =
             IF input_stream = NoStream THEN <<>> ELSE <<input_stream>>
        /\ UNCHANGED <<running, audio_queue, callbacks, muted, joined,
                       voice_clients, connecting, leaving, loop_pc, buffer,
                       consecutive_silence, stop_pc, bitrate>>]_vars

\* C16 witness: start_recording for an unknown device returned after closing
\* the stream that was delivering frames; one of its frames is in the slot.
UnknownDeviceClosedTheStream ==
    /\ UnknownDevice
    /\ event.outcome = "returned"
    /\ event.closed = <<1>>
    /\ input_stream = NoStream
    /\ open_streams = {}
    /\ audio_queue = <<LoudFrame>>

\* the counter before frame i of the trace
SilenceBefore(i) == IF i = 1 THEN 0 ELSE hist[i - 1].silence

\* C17: set_muted only sets the flag, which the loop reads when it next
\* processes a frame: a frame processed with the flag set counts as a silent
\* frame whatever was captured (the counter grows by one, and the state and
\* the skip follow the counter), it is taken from the slot like any other,
\* and what is encoded for it, if anything, is a buffer of zero bytes of the
\* length of the captured block, never the captured samples.
MutedFramesAreZeroed ==
    /\ [](\A i \in 1..Len(hist) :
            hist[i].muted =>
                /\ hist[i].silence = SilenceBefore(i) + 1
                /\ hist[i].speaking = SpeakingState(SilenceBefore(i) + 1)
                /\ hist[i].encoded # <<>> =>
                     /\ hist[i].encoded[1].pcm =
                          [k \in 1..Len(hist[i].captured) |-> 0]
                     /\ hist[i].silence <= 2)
    /\ [](loop_pc = "encode" /\ hist[Len(hist)].muted =>
            buffer = [k \in 1..Len(hist[Len(hist)].captured) |-> 0])
    /\ [][\A m \in BOOLEAN :
            (muted' = m /\ muted # m) =>
                UNCHANGED <<audio_queue, callbacks, loop_pc, buffer,
                            consecutive_silence, hist>>]_vars
    /\ [][Len(hist') = Len(hist) + 1 =>
            /\ hist'[Len(hist')].muted = muted
            /\ hist'[Len(hist')].captured = Head(audio_queue)
            /\ audio_queue' = Tail(audio_queue)]_vars

\* C17 witness: a loud block processed while muted, right after an unmuted
\* loud one, was encoded and sent as a buffer of zero bytes, and the next
\* one, processed unmuted, as captured.
MutedLoudFrameSentAsZeros ==
    /\ Len(hist) = 3
    /\ hist[1].captured = LoudFrame /\ ~hist[1].muted
    /\ hist[2].captured = LoudFrame /\ hist[2].muted
    /\ hist[2].silence = 1
    /\ hist[2].encoded = <<OpusEncode(ZeroBytes(BufferLen))>>
    /\ hist[3].captured = LoudFrame /\ ~hist[3].muted
    /\ hist[3].encoded = <<OpusEncode(LoudFrame)>>

\* the number of times the packet of the frame was offered to client c
Offers(c) ==
    Cardinality({i \in 1..Len(event.offers) : event.offers[i].to = c})

\* C18: a frame that is to be transmitted is encoded once, in the step that
\* ends its processing; the one packet is offered exactly once to each
\* client that is connected at that moment and never to a client that is not,
\* and every offer carries that same packet.
PacketOfferedOncePerConnected ==
    [][/\ (loop_pc = "encode" /\ loop_pc' # "encode") => FannedOut'
       /\ FannedOut' =>
            /\ loop_pc = "encode"
            /\ event'.encoded = <<OpusEncode(buffer)>>
            /\ \A c \in Channels :
                 Offers(c)' = IF IsConnected(c) THEN 1 ELSE 0
            /\ \A i \in 1..Len(event'.offers) :
                 event'.offers[i].packet = event'.encoded[1]
      ]_vars

\* C18 witness: a frame was sent while A was connected and B's connection
\* was lost: A was offered the packet, B nothing.
OnlyConnectedSessionServed ==
    /\ FannedOut
    /\ IsConnected("A")
    /\ voice_clients["B"].status = "lost"
    /\ event.offers = <<[to |-> "A", packet |-> OpusEncode(LoudFrame)]>>

\* a join_voice or leave_voice call of channel c has just ended and no other
\* call of c is suspended
CallsCompleted(c) ==
    /\ event.ch = c
    /\ event.op \in {"join.connect", "leave.disconnect"}
    /\ ~connecting[c]
    /\ ~leaving[c]

\* C19: however join_voice and leave_voice of one channel interleave at
\* their awaits (leave_voice running while the connect of join_voice is
\* pending included), once both have ended the list agrees with the live
\* connections: a channel that is not in the list has no connected client,
\* so nothing is sent to it later; and neither call raises because of the
\* other.
JoinAndLeaveAgree ==
    [][\A c \in Channels :
        CallsCompleted(c)' =>
            /\ event'.outcome # "ValueError"
            /\ ~InJoined(c)' => ~IsConnected(c)']_vars

\* stop() is past its put: it is at logout, or done
StopPastPut == stop_pc \in {"logout", "done"}

\* C20: a stop() call always gets to its logout step, whatever the state it
\* is called in, also when the slot holds a frame and the loop has not
\* started reading or has returned: its put of None never waits for ever.
StopAlwaysCompletes == (stop_pc = "put") ~> StopPastPut

====
